---- MODULE Spec2Model ----
(***************************************************************************)
(* RAGService (content ingestion and hybrid retrieval) of refly.           *)
(*                                                                         *)
(* The service's asynchronous handlers are modelled by their suspension    *)
(* points: an indexContent call is a slot that moves Received -> Chunked   *)
(* -> Embedded -> Stored (or Failed); a crawlFromRemoteReader call is a    *)
(* slot that either hits the cache or waits for the remote reader.         *)
(* retrieve and the two deletes read or write the shared store at exactly  *)
(* one await, so each is a single action.                                  *)
(***************************************************************************)
EXTENDS Integers, Sequences, FiniteSets, TLC

VARIABLES
  store,      \* durable vector store: the set of points it holds
  stage,      \* stage[c]: where indexContent call c stands
  req,        \* req[c]: [user, doc] the call was made with
  err,        \* err[c]: the error call c threw ("none" while it has not)
  ret,        \* what the last retrieve call returned; cleared when another
              \* handler is called
  gone,       \* history: the last delete call, until its user saves points
              \* of a document with the deleted owner id again
  tried,      \* history: an ingest whose upsert failed and the store as it
              \* was before, kept while the caller retries that ingest

  cache,      \* LRU cache url -> reader result, least recently used first
  fstage,     \* fstage[f]: where crawlFromRemoteReader call f stands
  furl,       \* furl[f]: the url call f was made with
  fres,       \* fres[f]: what call f returned ("none" if nothing)
  fnet,       \* history: whether call f sent a request to the reader
  objects,    \* object storage: storage key -> bytes
  loaded,     \* what the last loadContentChunks call returned
  saved,      \* history: storage key -> the ContentData last saved under it
  mem,        \* memoryVectorStore: the documents added, in order
  mret        \* what the last inMemorySearch call returned

storeVars == <<store, stage, req, err, ret, gone, tried>>
cacheVars == <<cache, fstage, furl, fres, fnet>>
codecVars == <<objects, loaded, saved>>
memVars == <<mem, mret>>
vars == <<storeVars, cacheVars, codecVars, memVars>>
\* what the handlers of one part leave alone
notStore == <<cacheVars, codecVars, memVars>>
notCache == <<storeVars, codecVars, memVars>>
notCodec == <<storeVars, cacheVars, memVars>>
notMem == <<storeVars, cacheVars, codecVars>>

(***************************************************************************)
(* Bounds and value domains                                                *)
(***************************************************************************)
\* number of indexContent calls that may be in flight together
NCalls == 2
\* stand-in for the splitter's chunkSize (1000 in the source), scaled down
ChunkSize == 2
\* number of crawlFromRemoteReader calls that may be in flight together
NFetch == 2
\* stand-in for the cache's max (1000 in the source), scaled down
CacheMax == 2
\* number of documents the in-memory index is followed up to
MemMax == 2

Undef == "undefined"
Users == {"u1", "u2"}
StorageKeys == {"k1", "k2"}
Calls == 1..NCalls
FCalls == 1..NFetch

Meta(nodeType, noteId, resourceId, url, collectionId, tenantId) ==
  [nodeType |-> nodeType, noteId |-> noteId, resourceId |-> resourceId,
   url |-> url, collectionId |-> collectionId, tenantId |-> tenantId]

\* documents callers ingest: Document<NodeMeta> = {pageContent, metadata}
Docs == <<
  [pageContent |-> <<"a", "#", "a", "a">>,
   metadata |-> Meta("note", "n1", Undef, Undef, "c1", Undef)],
  [pageContent |-> <<"b">>,
   metadata |-> Meta("note", "n1", Undef, Undef, "c1", Undef)],
  [pageContent |-> <<"a", "b">>,
   metadata |-> Meta("resource", Undef, "r1", "x1", "c1", "u1")],
  [pageContent |-> <<"b", "a">>,
   metadata |-> Meta("resource", Undef, "r2", "x2", Undef, Undef)]
>>
DocIds == 1..Len(Docs)

(***************************************************************************)
(* Collaborators                                                           *)
(***************************************************************************)
\* strips markdown artifacts (here: the marker "#") before splitting
cleanMarkdownForIngest(text) == SelectSeq(text, LAMBDA ch : ch # "#")

RECURSIVE splitText(_)
splitText(text) ==
  IF Len(text) = 0 THEN <<>>
  ELSE IF Len(text) <= ChunkSize THEN <<text>>
  ELSE <<SubSeq(text, 1, ChunkSize)>>
         \o splitText(SubSeq(text, ChunkSize + 1, Len(text)))

chunkText(text) == splitText(cleanMarkdownForIngest(text))

\* the provider's vector for one text: a fixed function of the text
embedText(text) ==
  <<Len(text), Cardinality({i \in 1..Len(text) : text[i] = "a"})>>

embedDocuments(texts) == [i \in 1..Len(texts) |-> embedText(texts[i])]

\* deterministic id of the string `${docId}-${i}`
genResourceUuid(docId, i) == <<docId, i>>

\* upsert by point id: a point with the id of a stored one replaces it
batchSaveData(st, points) ==
  LET ids == {points[i].id : i \in 1..Len(points)}
  IN  {p \in st : p.id \notin ids} \cup {points[i] : i \in 1..Len(points)}

\* one condition of the store's filter grammar against a payload
MatchCondition(payload, cond) ==
  IF cond.kind = "value"
  THEN payload[cond.key] = cond.match
  ELSE \E j \in 1..Len(cond.match) : payload[cond.key] = cond.match[j]

MatchMust(payload, must) ==
  \A k \in 1..Len(must) : MatchCondition(payload, must[k])

batchDelete(st, must) == {p \in st : ~MatchMust(p.payload, must)}

qdrantSearch(st, must) == {p \in st : MatchMust(p.payload, must)}

(***************************************************************************)
(* indexContent                                                            *)
(***************************************************************************)
DocIdOf(metadata) ==
  IF metadata.nodeType = "note" THEN metadata.noteId ELSE metadata.resourceId

\* payload: {...metadata, seq: i, content: chunks[i], tenantId: uid}
IndexPayload(metadata, i, chunk, uid) ==
  [nodeType |-> metadata.nodeType, noteId |-> metadata.noteId,
   resourceId |-> metadata.resourceId, url |-> metadata.url,
   collectionId |-> metadata.collectionId,
   seq |-> i, content |-> chunk, tenantId |-> uid]

\* a plausible slip: the id is derived from the chunk's text, not its index
MutIndexPointsContentId(uid, doc, chunks, chunkEmbeds) ==
  [k \in 1..Len(chunks) |->
     [id |-> genResourceUuid(DocIdOf(doc.metadata), chunks[k]),
      vector |-> chunkEmbeds[k],
      payload |-> IndexPayload(doc.metadata, k - 1, chunks[k], uid),
      by |-> uid]]

\* a plausible slip: the sequence numbers are counted from 1
MutIndexPointsSeqFromOne(uid, doc, chunks, chunkEmbeds) ==
  [k \in 1..Len(chunks) |->
     [id |-> genResourceUuid(DocIdOf(doc.metadata), k - 1),
      vector |-> chunkEmbeds[k],
      payload |-> IndexPayload(doc.metadata, k, chunks[k], uid),
      by |-> uid]]

IndexPoints(uid, doc, chunks, chunkEmbeds) ==
  [k \in 1..Len(chunks) |->
     [id |-> genResourceUuid(DocIdOf(doc.metadata), k - 1),
      vector |-> chunkEmbeds[k],
      payload |-> IndexPayload(doc.metadata, k - 1, chunks[k], uid),
      by |-> uid]]   \* history: the user whose call wrote the point

CallChunks(c) == chunkText(Docs[req[c].doc].pageContent)
CallPoints(c) ==
  IndexPoints(req[c].user, Docs[req[c].doc], CallChunks(c),
              embedDocuments(CallChunks(c)))

NoReq == [user |-> Undef, doc |-> 0]
\* ret before any retrieve has returned
NoRet == [op |-> "none"]
NoGone == [key |-> "none"]
NoTried == [user |-> Undef]
\* no object under a key; loaded before any load has returned
NoObject == <<-1>>
NoLoad == [op |-> "none"]
NoSearch == [op |-> "none"]

Init ==
  /\ store = {}
  /\ stage = [c \in Calls |-> "Idle"]
  /\ req = [c \in Calls |-> NoReq]
  /\ err = [c \in Calls |-> "none"]
  /\ ret = NoRet
  /\ gone = NoGone
  /\ tried = NoTried
  /\ cache = <<>>
  /\ fstage = [f \in FCalls |-> "Idle"]
  /\ furl = [f \in FCalls |-> Undef]
  /\ fres = [f \in FCalls |-> "none"]
  /\ fnet = [f \in FCalls |-> FALSE]
  /\ objects = [k \in StorageKeys |-> NoObject]
  /\ loaded = NoLoad
  /\ saved = [k \in StorageKeys |-> 0]
  /\ mem = <<>>
  /\ mret = NoSearch

IndexContentStart(c, u, d) ==
  /\ stage[c] = "Idle"
  /\ stage' = [stage EXCEPT ![c] = "Received"]
  /\ req' = [req EXCEPT ![c] = [user |-> u, doc |-> d]]
  /\ ret' = NoRet
  /\ UNCHANGED <<store, err, gone, notStore>>

\* a plausible slip: the embedding step is passed over
MutChunkSkipsEmbed(c) ==
  /\ stage[c] = "Received"
  /\ stage' = [stage EXCEPT ![c] = "Embedded"]
  /\ UNCHANGED <<store, req, err, ret, gone, notStore>>

IndexContentChunk(c) ==
  /\ stage[c] = "Received"
  /\ stage' = [stage EXCEPT ![c] = "Chunked"]
  /\ UNCHANGED <<store, req, err, ret, gone, notStore>>

IndexContentEmbed(c) ==
  /\ stage[c] = "Chunked"
  /\ stage' = [stage EXCEPT ![c] = "Embedded"]
  /\ UNCHANGED <<store, req, err, ret, gone, notStore>>

\* a plausible slip: the provider's error is swallowed and the chunks are
\* saved without vectors
MutEmbedFailSavesAnyway(c) ==
  /\ stage[c] = "Chunked"
  /\ store' = batchSaveData(store,
        IndexPoints(req[c].user, Docs[req[c].doc], CallChunks(c),
                    [k \in 1..Len(CallChunks(c)) |-> <<>>]))
  /\ stage' = [stage EXCEPT ![c] = "Failed"]
  /\ err' = [err EXCEPT ![c] = "EmbeddingError"]
  /\ UNCHANGED <<req, ret, gone, notStore>>

\* embedDocuments throws: the exception leaves indexContent before line 334
IndexContentEmbedFail(c) ==
  /\ stage[c] = "Chunked"
  /\ stage' = [stage EXCEPT ![c] = "Failed"]
  /\ err' = [err EXCEPT ![c] = "EmbeddingError"]
  /\ UNCHANGED <<store, req, ret, gone, notStore>>

\* gone after call c has handed points to the store
GoneAfterSave(c) ==
  IF /\ gone # NoGone
     /\ gone.user = req[c].user
     /\ Docs[req[c].doc].metadata[gone.key] = gone.id
  THEN NoGone ELSE gone

\* a plausible slip: points whose id is already stored are not written
MutSaveSkipsExisting(c) ==
  /\ stage[c] = "Embedded"
  /\ store' = store \cup
        {CallPoints(c)[k] : k \in {j \in 1..Len(CallPoints(c)) :
           \A p \in store : p.id # CallPoints(c)[j].id}}
  /\ stage' = [stage EXCEPT ![c] = "Stored"]
  /\ gone' = GoneAfterSave(c)
  /\ UNCHANGED <<req, err, ret, notStore>>

IndexContentSave(c) ==
  /\ stage[c] = "Embedded"
  /\ store' = batchSaveData(store, CallPoints(c))
  /\ stage' = [stage EXCEPT ![c] = "Stored"]
  /\ gone' = GoneAfterSave(c)
  /\ UNCHANGED <<req, err, ret, notStore>>

\* a plausible slip: a failed save is compensated by deleting every point
\* of the document
MutSaveFailRollsBack(c) ==
  /\ stage[c] = "Embedded"
  /\ store' = {p \in store :
                 DocIdOf(p.payload) # DocIdOf(Docs[req[c].doc].metadata)}
  /\ stage' = [stage EXCEPT ![c] = "Failed"]
  /\ err' = [err EXCEPT ![c] = "StoreError"]
  /\ gone' = GoneAfterSave(c)
  /\ UNCHANGED <<req, ret, notStore>>

\* the store rejects the batch: per-point atomic, so a prefix may be in
IndexContentSaveFail(c) ==
  /\ stage[c] = "Embedded"
  /\ \E n \in 0..Len(CallPoints(c)) :
       store' = batchSaveData(store, SubSeq(CallPoints(c), 1, n))
  /\ stage' = [stage EXCEPT ![c] = "Failed"]
  /\ err' = [err EXCEPT ![c] = "StoreError"]
  /\ gone' = GoneAfterSave(c)
  /\ UNCHANGED <<req, ret, notStore>>

\* the caller has the call's outcome; the slot is free for another call
IndexContentReturn(c) ==
  /\ stage[c] \in {"Stored", "Failed"}
  /\ stage' = [stage EXCEPT ![c] = "Idle"]
  /\ req' = [req EXCEPT ![c] = NoReq]
  /\ err' = [err EXCEPT ![c] = "none"]
  /\ UNCHANGED <<store, ret, gone, notStore>>

(***************************************************************************)
(* deleteResourceNodes / deleteNoteNodes                                   *)
(***************************************************************************)
ResourceIds == {"r1", "r2"}
NoteIds == {"n1"}

ValueCond(key, value) == [key |-> key, kind |-> "value", match |-> value]
AnyCond(key, values) == [key |-> key, kind |-> "any", match |-> values]

\* a plausible slip: the tenant condition is left out
MutDeleteResourceMustNoTenant(uid, resourceId) ==
  <<ValueCond("resourceId", resourceId)>>

DeleteResourceMust(uid, resourceId) ==
  <<ValueCond("tenantId", uid), ValueCond("resourceId", resourceId)>>

\* a plausible slip: the filter copied from deleteResourceNodes keeps its key
MutDeleteNoteMustWrongKey(uid, noteId) ==
  <<ValueCond("tenantId", uid), ValueCond("resourceId", noteId)>>

DeleteNoteMust(uid, noteId) ==
  <<ValueCond("tenantId", uid), ValueCond("noteId", noteId)>>

deleteResourceNodes(u, resourceId) ==
  /\ store' = batchDelete(store, DeleteResourceMust(u, resourceId))
  /\ ret' = NoRet
  /\ gone' = [key |-> "resourceId", user |-> u, id |-> resourceId,
              hit |-> store' # store]
  /\ UNCHANGED <<stage, req, err, notStore>>

deleteNoteNodes(u, noteId) ==
  /\ store' = batchDelete(store, DeleteNoteMust(u, noteId))
  /\ ret' = NoRet
  /\ gone' = [key |-> "noteId", user |-> u, id |-> noteId,
              hit |-> store' # store]
  /\ UNCHANGED <<stage, req, err, notStore>>

(***************************************************************************)
(* retrieve                                                                *)
(***************************************************************************)
\* an optional value: None when undefined, Some(x) when x
None == <<>>
Some(x) == <<x>>

Filter(nodeTypes, urls, noteIds, resourceIds, collectionIds) ==
  [nodeTypes |-> nodeTypes, urls |-> urls, noteIds |-> noteIds,
   resourceIds |-> resourceIds, collectionIds |-> collectionIds]

\* HybridSearchParam values callers pass: {query, vector?, filter?}
Params == <<
  [query |-> Some(<<"a">>), vector |-> None, filter |-> None],
  [query |-> Some(<<"a">>), vector |-> None,
   filter |-> Some(Filter(None, None, Some(<<"n1">>), None, None))],
  [query |-> Some(<<"a">>), vector |-> None,
   filter |-> Some(Filter(Some(<<>>), None, None, Some(<<"r1">>),
                          Some(<<>>)))],
  [query |-> Some(<<"b">>), vector |-> Some(<<1, 0>>),
   filter |-> Some(Filter(Some(<<"resource", "note">>), Some(<<"x1">>),
                          None, Some(<<"r1", "r2">>), Some(<<"c1">>)))],
  [query |-> Some(<<>>), vector |-> None,
   filter |-> Some(Filter(None, None, None, Some(<<"r2">>), None))],
  [query |-> None, vector |-> None, filter |-> None]
>>
ParamIds == 1..Len(Params)

\* x?.length > 0 of a list that may be undefined
NonEmpty(list) == list # None /\ Len(list[1]) > 0

\* param.filter?.f of a filter that may be undefined
Facet(param, f) == IF param.filter = None THEN None ELSE param.filter[1][f]

PushIf(conditions, key, list) ==
  IF NonEmpty(list) THEN Append(conditions, AnyCond(key, list[1]))
  ELSE conditions

\* a plausible slip: the tenant condition is left out of the conjunction
MutConditionsNoTenant(uid, param) ==
  PushIf(PushIf(PushIf(PushIf(PushIf(<<>>,
    "nodeType", Facet(param, "nodeTypes")),
    "url", Facet(param, "urls")),
    "noteId", Facet(param, "noteIds")),
    "resourceId", Facet(param, "resourceIds")),
    "collectionId", Facet(param, "collectionIds"))

\* a plausible slip: the noteIds facet is pushed under the resourceId key
MutConditionsNoteKey(uid, param) ==
  PushIf(PushIf(PushIf(PushIf(PushIf(<<ValueCond("tenantId", uid)>>,
    "nodeType", Facet(param, "nodeTypes")),
    "url", Facet(param, "urls")),
    "resourceId", Facet(param, "noteIds")),
    "resourceId", Facet(param, "resourceIds")),
    "collectionId", Facet(param, "collectionIds"))

Conditions(uid, param) ==
  PushIf(PushIf(PushIf(PushIf(PushIf(<<ValueCond("tenantId", uid)>>,
    "nodeType", Facet(param, "nodeTypes")),
    "url", Facet(param, "urls")),
    "noteId", Facet(param, "noteIds")),
    "resourceId", Facet(param, "resourceIds")),
    "collectionId", Facet(param, "collectionIds"))

RetrieveRet(u, pi, must, out, error, searched) ==
  [op |-> "retrieve", user |-> u, param |-> pi, must |-> must, out |-> out,
   err |-> error, searched |-> searched]

\* `out` holds the points whose payloads are returned (results.map(res =>
\* res.payload)); the point is kept whole so that its writer can be read off
retrieve(u, pi) ==
  /\ \/ \* embedQuery(param.query) throws
        /\ Params[pi].vector = None
        /\ ret' = RetrieveRet(u, pi, <<>>, {}, "EmbeddingError", FALSE)
     \/ \* a vector is at hand (given, or embedQuery returned one)
        /\ ret' = RetrieveRet(u, pi, Conditions(u, Params[pi]),
                     qdrantSearch(store, Conditions(u, Params[pi])),
                     "none", TRUE)
  /\ UNCHANGED <<store, stage, req, err, gone, notStore>>

(***************************************************************************)
(* crawlFromRemoteReader and its LRU cache                                 *)
(***************************************************************************)
Urls == {"x1", "x2", "x3"}

\* what the reader may answer: a status and a body. "d1" is a body that
\* parses to a reader result, "{}" parses to an object with no field of one,
\* "null" parses to null, "" and "<html>" do not parse
Responses ==
  {[status |-> 200, body |-> "d1"],
   [status |-> 200, body |-> "{}"], [status |-> 200, body |-> "null"],
   [status |-> 200, body |-> ""], [status |-> 200, body |-> "<html>"],
   [status |-> 500, body |-> "d1"], [status |-> 500, body |-> "<html>"]}

\* response.json(): rejects on a body that is not JSON
JsonParses(body) == body \notin {"", "<html>"}
\* a plausible slip: the parsed body is not looked at
MutFalsyNever(data) == FALSE

\* !data of the parsed body
Falsy(data) == data = "null"

CacheKeys(c) == {c[i].url : i \in 1..Len(c)}

\* cache.get(url): the value stored under url, undefined when there is none
LRUGet(c, url) ==
  IF url \in CacheKeys(c)
  THEN (CHOOSE e \in {c[i] : i \in 1..Len(c)} : e.url = url).data
  ELSE Undef

\* a plausible slip: a read does not count as a use
MutNoTouch(c, url) == c

\* cache.get marks the entry most recently used
LRUTouch(c, url) ==
  SelectSeq(c, LAMBDA e : e.url # url)
    \o SelectSeq(c, LAMBDA e : e.url = url)

\* cache.set(url, data): the entry becomes most recently used; over max, the
\* least recently used entry goes
LRUSet(c, url, data) ==
  LET put == Append(SelectSeq(c, LAMBDA e : e.url # url),
                    [url |-> url, data |-> data])
  IN  IF Len(put) > CacheMax THEN Tail(put) ELSE put

\* a plausible slip: the cache is never consulted
MutNeverHit(c, url) == FALSE

\* if (this.cache.get(url))
CacheHit(c, url) == LRUGet(c, url) # Undef /\ ~Falsy(LRUGet(c, url))

crawlHit(f, url) ==
  /\ fstage[f] = "Idle"
  /\ CacheHit(cache, url)
  /\ cache' = LRUTouch(cache, url)
  /\ fstage' = [fstage EXCEPT ![f] = "Done"]
  /\ furl' = [furl EXCEPT ![f] = url]
  /\ fres' = [fres EXCEPT ![f] = LRUGet(cache, url)]
  /\ fnet' = [fnet EXCEPT ![f] = FALSE]
  /\ UNCHANGED notCache

\* no entry: the request to the reader goes out and the call awaits it
crawlMiss(f, url) ==
  /\ fstage[f] = "Idle"
  /\ ~CacheHit(cache, url)
  /\ fstage' = [fstage EXCEPT ![f] = "Fetching"]
  /\ furl' = [furl EXCEPT ![f] = url]
  /\ fnet' = [fnet EXCEPT ![f] = TRUE]
  /\ UNCHANGED <<cache, fres, notCache>>

\* a plausible slip: a failed fetch drops the URL's entry
MutRespondFailEvicts(f, r) ==
  /\ fstage[f] = "Fetching"
  /\ IF r.status # 200 \/ ~JsonParses(r.body) \/ Falsy(r.body)
     THEN /\ fstage' = [fstage EXCEPT ![f] = "Failed"]
          /\ cache' = SelectSeq(cache, LAMBDA e : e.url # furl[f])
          /\ UNCHANGED fres
     ELSE /\ cache' = LRUSet(cache, furl[f], r.body)
          /\ fstage' = [fstage EXCEPT ![f] = "Done"]
          /\ fres' = [fres EXCEPT ![f] = r.body]
  /\ UNCHANGED <<furl, fnet, notCache>>

\* the reader's answer r arrives
crawlRespond(f, r) ==
  /\ fstage[f] = "Fetching"
  /\ IF r.status # 200 \/ ~JsonParses(r.body) \/ Falsy(r.body)
     THEN /\ fstage' = [fstage EXCEPT ![f] = "Failed"]
          /\ UNCHANGED <<cache, fres>>
     ELSE /\ cache' = LRUSet(cache, furl[f], r.body)
          /\ fstage' = [fstage EXCEPT ![f] = "Done"]
          /\ fres' = [fres EXCEPT ![f] = r.body]
  /\ UNCHANGED <<furl, fnet, notCache>>

\* the caller has the call's outcome; the slot is free for another call
crawlReturn(f) ==
  /\ fstage[f] \in {"Done", "Failed"}
  /\ fstage' = [fstage EXCEPT ![f] = "Idle"]
  /\ furl' = [furl EXCEPT ![f] = Undef]
  /\ fres' = [fres EXCEPT ![f] = "none"]
  /\ fnet' = [fnet EXCEPT ![f] = FALSE]
  /\ UNCHANGED <<cache, notCache>>

NextCache ==
  \/ \E f \in FCalls, url \in Urls : crawlHit(f, url)
  \/ \E f \in FCalls, url \in Urls : crawlMiss(f, url)
  \/ \E f \in FCalls, r \in Responses : crawlRespond(f, r)
  \/ \E f \in FCalls : crawlReturn(f)

SpecCache == Init /\ [][NextCache]_vars

(***************************************************************************)
(* ChunkAvroType / ContentAvroType, saveContentChunks, loadContentChunks   *)
(*                                                                         *)
(* A string is the sequence of its bytes (ASCII); a vector component is a  *)
(* JavaScript number, here an integer-valued one. The bytes are Avro's     *)
(* binary encoding of the schema: a long is a zigzag varint, a string its  *)
(* length and bytes, a float four little-endian IEEE 754 single bytes, an  *)
(* array a count, the items and a closing 0, a record its fields in order. *)
(***************************************************************************)
\* 2^23 and 2^24: a float's fraction has 23 bits, its significand 24
F32Hidden == 8388608
F32Limit == 16777216
\* the exponent bias of a float
F32Bias == 127

Abs(v) == IF v < 0 THEN 0 - v ELSE v

RECURSIVE Pow2(_)
Pow2(n) == IF n = 0 THEN 1 ELSE 2 * Pow2(n - 1)

\* floor(log2 a) of a in 1 .. 2^30 - 1
Log2(a) == CHOOSE e \in 0..29 : Pow2(e) <= a /\ a < Pow2(e + 1)

Rep(n, byte) == [i \in 1..n |-> byte]

Chunk(id, url, type, title, content, vector) ==
  [id |-> id, url |-> url, type |-> type, title |-> title,
   content |-> content, vector |-> vector]

\* ContentData values callers save
Contents == <<
  [chunks |-> <<>>],
  [chunks |-> <<Chunk(<<97>>, <<>>, <<98>>, <<97, 98>>, <<97>>, <<1>>)>>],
  [chunks |-> <<Chunk(<<97>>, <<120>>, <<98>>, <<>>, Rep(64, 97),
                      <<0, -2, 3>>),
                Chunk(<<98>>, <<120>>, <<98>>, <<99>>, <<97, 97>>, <<>>)>>],
  [chunks |-> <<Chunk(<<97>>, <<120>>, <<98>>, <<99>>, <<97>>,
                      <<16777216, 5>>)>>],
  [chunks |-> <<Chunk(<<97>>, <<120>>, <<98>>, <<99>>, <<97>>,
                      <<16777217>>)>>],
  [chunks |-> <<Chunk(<<98>>, <<>>, <<98>>, <<99>>, <<97>>,
                      <<-16777219, 1>>)>>]
>>
ContentIds == 1..Len(Contents)

RECURSIVE Varint(_)
Varint(z) ==
  IF z < 128 THEN <<z>> ELSE <<128 + (z % 128)>> \o Varint(z \div 128)

WriteLong(n) == Varint(IF n >= 0 THEN 2 * n ELSE 0 - 2 * n - 1)

WriteString(str) == WriteLong(Len(str)) \o str

\* a \div unit rounded to the nearest integer, ties to even
RoundDiv(a, unit) ==
  IF 2 * (a % unit) > unit
       \/ (2 * (a % unit) = unit /\ (a \div unit) % 2 = 1)
  THEN a \div unit + 1 ELSE a \div unit

\* a significand that rounded up to 2^24 moves to the next exponent
Carry(e, q) ==
  IF q = F32Limit THEN [e |-> e + 1, q |-> F32Hidden] ELSE [e |-> e, q |-> q]

F32At(a, e) ==
  IF e <= 23 THEN [e |-> e, q |-> a * Pow2(23 - e)]
  ELSE Carry(e, RoundDiv(a, Pow2(e - 23)))

\* the float nearest to a (ties to even), as [e, q]: q * 2^(e - 23)
F32Round(a) == F32At(a, Log2(a))

\* the four bytes of a float, least significant first
F32Bytes(negative, frac, biased) ==
  <<frac % 256, (frac \div 256) % 256,
    (biased % 2) * 128 + frac \div 65536,
    (IF negative THEN 128 ELSE 0) + biased \div 2>>

F32Encode(negative, f) == F32Bytes(negative, f.q - F32Hidden, f.e + F32Bias)

\* buf.writeFloatLE(v)
WriteFloat(v) ==
  IF v = 0 THEN <<0, 0, 0, 0>> ELSE F32Encode(v < 0, F32Round(Abs(v)))

RECURSIVE Concat(_)
Concat(seqs) == IF seqs = <<>> THEN <<>> ELSE Head(seqs) \o Concat(Tail(seqs))

WriteFloatArray(vector) ==
  IF Len(vector) = 0 THEN <<0>>
  ELSE WriteLong(Len(vector))
         \o Concat([i \in 1..Len(vector) |-> WriteFloat(vector[i])]) \o <<0>>

\* a plausible slip: title and content are written in the other order
MutWriteChunkSwapped(chunk) ==
  WriteString(chunk.id) \o WriteString(chunk.url) \o WriteString(chunk.type)
    \o WriteString(chunk.content) \o WriteString(chunk.title)
    \o WriteFloatArray(chunk.vector)

\* ChunkAvroType: id, url, type, title, content, vector
WriteChunk(chunk) ==
  WriteString(chunk.id) \o WriteString(chunk.url) \o WriteString(chunk.type)
    \o WriteString(chunk.title) \o WriteString(chunk.content)
    \o WriteFloatArray(chunk.vector)

\* ContentAvroType.toBuffer(data)
toBuffer(data) ==
  IF Len(data.chunks) = 0 THEN <<0>>
  ELSE WriteLong(Len(data.chunks))
         \o Concat([i \in 1..Len(data.chunks) |-> WriteChunk(data.chunks[i])])
         \o <<0>>

\* readers return [ok, val, rest]; ok is FALSE when the bytes run out
Bad == [ok |-> FALSE, val |-> 0, rest |-> <<>>]
Good(val, rest) == [ok |-> TRUE, val |-> val, rest |-> rest]

\* the rest of a varint after a byte with the continuation bit set
MoreVarint(byte, more) ==
  IF more.ok THEN Good((byte - 128) + 128 * more.val, more.rest) ELSE Bad

RECURSIVE ReadVarint(_)
ReadVarint(buf) ==
  IF Len(buf) = 0 THEN Bad
  ELSE IF Head(buf) < 128 THEN Good(Head(buf), Tail(buf))
  ELSE MoreVarint(Head(buf), ReadVarint(Tail(buf)))

UnZigZag(z) ==
  IF ~z.ok THEN Bad
  ELSE Good(IF z.val % 2 = 0 THEN z.val \div 2 ELSE 0 - ((z.val + 1) \div 2),
            z.rest)

ReadLong(buf) == UnZigZag(ReadVarint(buf))

\* the n.val bytes after a length n
TakeBytes(n) ==
  IF ~n.ok \/ n.val < 0 \/ n.val > Len(n.rest) THEN Bad
  ELSE Good(SubSeq(n.rest, 1, n.val), SubSeq(n.rest, n.val + 1, Len(n.rest)))

ReadString(buf) == TakeBytes(ReadLong(buf))

\* the magnitude of a float with the given fraction and biased exponent
F32Value(frac, biased) ==
  IF biased = 0 THEN 0
  ELSE IF biased - F32Bias >= 23
       THEN (F32Hidden + frac) * Pow2(biased - F32Bias - 23)
       ELSE (F32Hidden + frac) \div Pow2(23 - (biased - F32Bias))

Signed(negative, mag) == IF negative THEN 0 - mag ELSE mag

\* buf.readFloatLE()
ReadFloat(buf) ==
  IF Len(buf) < 4 THEN Bad
  ELSE Good(Signed(buf[4] >= 128,
                   F32Value(buf[1] + 256 * buf[2] + 65536 * (buf[3] % 128),
                            2 * (buf[4] % 128) + buf[3] \div 128)),
            SubSeq(buf, 5, Len(buf)))

RECURSIVE ReadFloats(_, _, _)
MoreFloats(x, n, acc) ==
  IF x.ok THEN ReadFloats(x.rest, n - 1, Append(acc, x.val)) ELSE Bad

ReadFloats(buf, n, acc) ==
  IF n = 0 THEN Good(acc, buf) ELSE MoreFloats(ReadFloat(buf), n, acc)

\* an array: blocks of a count and that many items, closed by a count of 0
RECURSIVE ReadFloatArray(_, _)
MoreFloatBlocks(xs) ==
  IF xs.ok THEN ReadFloatArray(xs.rest, xs.val) ELSE Bad

FloatBlock(n, acc) ==
  IF ~n.ok \/ n.val < 0 THEN Bad
  ELSE IF n.val = 0 THEN Good(acc, n.rest)
  ELSE MoreFloatBlocks(ReadFloats(n.rest, n.val, acc))

ReadFloatArray(buf, acc) == FloatBlock(ReadLong(buf), acc)

RECURSIVE ReadStrings(_, _, _)
MoreStrings(x, n, acc) ==
  IF x.ok THEN ReadStrings(x.rest, n - 1, Append(acc, x.val)) ELSE Bad

ReadStrings(buf, n, acc) ==
  IF n = 0 THEN Good(acc, buf) ELSE MoreStrings(ReadString(buf), n, acc)

\* the record from its string fields and its vector
MakeChunk(strs, vector) ==
  IF ~vector.ok THEN Bad
  ELSE Good(Chunk(strs[1], strs[2], strs[3], strs[4], strs[5], vector.val),
            vector.rest)

ChunkVector(strs) ==
  IF ~strs.ok THEN Bad
  ELSE MakeChunk(strs.val, ReadFloatArray(strs.rest, <<>>))

\* ChunkAvroType: the strings id, url, type, title, content, then vector
ReadChunk(buf) == ChunkVector(ReadStrings(buf, 5, <<>>))

RECURSIVE ReadChunks(_, _, _)
MoreChunks(x, n, acc) ==
  IF x.ok THEN ReadChunks(x.rest, n - 1, Append(acc, x.val)) ELSE Bad

ReadChunks(buf, n, acc) ==
  IF n = 0 THEN Good(acc, buf) ELSE MoreChunks(ReadChunk(buf), n, acc)

RECURSIVE ReadChunkArray(_, _)
MoreChunkBlocks(xs) ==
  IF xs.ok THEN ReadChunkArray(xs.rest, xs.val) ELSE Bad

ChunkBlock(n, acc) ==
  IF ~n.ok \/ n.val < 0 THEN Bad
  ELSE IF n.val = 0 THEN Good(acc, n.rest)
  ELSE MoreChunkBlocks(ReadChunks(n.rest, n.val, acc))

ReadChunkArray(buf, acc) == ChunkBlock(ReadLong(buf), acc)

\* a whole buffer decodes when the array is read and no byte is left over
Whole(x) ==
  IF x.ok /\ x.rest = <<>>
  THEN [ok |-> TRUE, data |-> [chunks |-> x.val]]
  ELSE [ok |-> FALSE, data |-> [chunks |-> <<>>]]

\* ContentAvroType.fromBuffer(buffer): throws on truncated or trailing data
fromBuffer(buf) == Whole(ReadChunkArray(buf, <<>>))

\* minio.client.putObject(storageKey, buf)
saveContentChunks(key, xi) ==
  /\ objects' = [objects EXCEPT ![key] = toBuffer(Contents[xi])]
  /\ saved' = [saved EXCEPT ![key] = xi]
  /\ loaded' = NoLoad
  /\ UNCHANGED notCodec

\* minio.client.getObject(storageKey), streamToBuffer, fromBuffer
loadContentChunks(key) ==
  /\ \/ /\ objects[key] = NoObject
        /\ loaded' = [op |-> "load", key |-> key, ok |-> FALSE,
                      data |-> [chunks |-> <<>>]]
     \/ /\ objects[key] # NoObject
        /\ loaded' = [op |-> "load", key |-> key,
                      ok |-> fromBuffer(objects[key]).ok,
                      data |-> fromBuffer(objects[key]).data]
  /\ UNCHANGED <<objects, saved, notCodec>>

NextCodec ==
  \/ \E key \in StorageKeys, xi \in ContentIds : saveContentChunks(key, xi)
  \/ \E key \in StorageKeys : loadContentChunks(key)

SpecCodec == Init /\ [][NextCodec]_vars

(***************************************************************************)
(* inMemoryIndexContent, inMemoryIndexDocuments, inMemorySearch            *)
(***************************************************************************)
\* documents callers index in memory: Document<any>. The metadata of the
\* second carries a tenantId of its own.
MemDocs == <<
  [pageContent |-> <<"a", " ", "b">>,
   metadata |-> [noteId |-> "n1", tenantId |-> Undef]],
  [pageContent |-> <<" ", "a">>,
   metadata |-> [noteId |-> "n2", tenantId |-> "u1"]],
  [pageContent |-> <<"a", "b">>,
   metadata |-> [noteId |-> "n2", tenantId |-> Undef]]
>>
MemDocIds == 1..Len(MemDocs)

\* arrays of documents callers pass to inMemoryIndexDocuments
MemBatches == {<<1>>, <<2>>, <<3, 2>>}

\* start and end of a document that has none
NoOffset == -1

Lowest(idx) == CHOOSE i \in idx : \A j \in idx : i <= j
Highest(idx) == CHOOSE i \in idx : \A j \in idx : i >= j

SpanOf(text, idx) ==
  IF idx = {} THEN <<>> ELSE SubSeq(text, Lowest(idx), Highest(idx))

\* String.prototype.trim, with " " the whitespace
Trim(text) == SpanOf(text, {i \in 1..Len(text) : text[i] # " "})

\* startIndex when chunk k is mapped: the trimmed lengths before it
RECURSIVE StartIndex(_, _)
StartIndex(chunks, k) ==
  IF k = 1 THEN 0
  ELSE StartIndex(chunks, k - 1) + Len(Trim(chunks[k - 1]))

\* a stored document; by and src are history: the caller and the document
\* of MemDocs it was made from
MemDocument(content, metadata, uid, start, end, d) ==
  [pageContent |-> content,
   metadata |-> [noteId |-> metadata.noteId, tenantId |-> uid,
                 start |-> start, end |-> end],
   by |-> uid, src |-> d]

MemChunks(d, needChunk) ==
  IF needChunk THEN chunkText(MemDocs[d].pageContent)
  ELSE <<MemDocs[d].pageContent>>

\* chunks.map(...) of inMemoryIndexContent
ContentDocuments(uid, d, chunks) ==
  [k \in 1..Len(chunks) |->
     MemDocument(Trim(chunks[k]), MemDocs[d].metadata, uid,
                 StartIndex(chunks, k),
                 StartIndex(chunks, k) + Len(Trim(chunks[k])), d)]

inMemoryIndexContent(u, d, needChunk) ==
  /\ Len(mem) + Len(MemChunks(d, needChunk)) <= MemMax
  /\ mem' = mem \o ContentDocuments(u, d, MemChunks(d, needChunk))
  /\ mret' = NoSearch
  /\ UNCHANGED notMem

\* docs.map(...) of inMemoryIndexDocuments
BatchDocuments(uid, docs) ==
  [k \in 1..Len(docs) |->
     MemDocument(MemDocs[docs[k]].pageContent, MemDocs[docs[k]].metadata,
                 uid, NoOffset, NoOffset, docs[k])]

inMemoryIndexDocuments(u, docs) ==
  /\ Len(mem) + Len(docs) <= MemMax
  /\ mem' = mem \o BatchDocuments(u, docs)
  /\ mret' = NoSearch
  /\ UNCHANGED notMem

\* filters callers pass to inMemorySearch: predicates on a document
MemFilters ==
  {[key |-> "any", value |-> Undef], [key |-> "noteId", value |-> "n1"],
   [key |-> "tenantId", value |-> "u1"], [key |-> "tenantId", value |-> "u2"]}

CallerFilter(filter, doc) ==
  filter.key = "any" \/ doc.metadata[filter.key] = filter.value

\* a plausible slip: the caller's filter alone is passed on
MutWrapperFilterCallerOnly(filter, uid, doc) == CallerFilter(filter, doc)

\* wrapperFilter: filter(doc) && doc.metadata.tenantId === user.uid
WrapperFilter(filter, uid, doc) ==
  CallerFilter(filter, doc) /\ doc.metadata.tenantId = uid

\* similaritySearch(query, k, wrapperFilter): k of the documents that pass,
\* all of them when fewer pass; which k is the provider's similarity
TopK(passing, k) ==
  {out \in SUBSET passing :
     Cardinality(out) = IF Cardinality(passing) < k
                        THEN Cardinality(passing) ELSE k}

inMemorySearch(u, k, filter) ==
  /\ \E out \in TopK({i \in 1..Len(mem) : WrapperFilter(filter, u, mem[i])},
                     k) :
       mret' = [op |-> "search", user |-> u, filter |-> filter, k |-> k,
                out |-> out]
  /\ UNCHANGED <<mem, notMem>>

NextMem ==
  \/ \E u \in Users, d \in MemDocIds, needChunk \in BOOLEAN :
       inMemoryIndexContent(u, d, needChunk)
  \/ \E u \in Users, docs \in MemBatches : inMemoryIndexDocuments(u, docs)
  \/ \E u \in Users, k \in 1..MemMax, filter \in MemFilters :
       inMemorySearch(u, k, filter)

SpecMem == Init /\ [][NextMem]_vars

(***************************************************************************)
(* Specifications                                                          *)
(***************************************************************************)
\* Spec: every handler of the durable path, one call at a time (a store
\* that interleaved ingests can build, one ingest after another builds too,
\* since each writes the store in its one save step; and a retrieve or a
\* delete touches the store at one point only).
SerialCalls == {CHOOSE c \in Calls : \A d \in Calls : c <= d}

Quiet == \A c \in Calls : stage[c] = "Idle"

Next ==
  \/ \E c \in SerialCalls, u \in Users, d \in DocIds :
       IndexContentStart(c, u, d)
       /\ UNCHANGED tried
  \/ \E c \in SerialCalls : IndexContentChunk(c) /\ UNCHANGED tried
  \/ \E c \in SerialCalls : IndexContentEmbed(c) /\ UNCHANGED tried
  \/ \E c \in SerialCalls : IndexContentEmbedFail(c) /\ UNCHANGED tried
  \/ \E c \in SerialCalls : IndexContentSave(c) /\ UNCHANGED tried
  \/ \E c \in SerialCalls : IndexContentSaveFail(c) /\ UNCHANGED tried
  \/ \E c \in SerialCalls : IndexContentReturn(c) /\ UNCHANGED tried
  \/ \E u \in Users, x \in ResourceIds : Quiet /\ deleteResourceNodes(u, x)
       /\ UNCHANGED tried
  \/ \E u \in Users, x \in NoteIds : Quiet /\ deleteNoteNodes(u, x)
       /\ UNCHANGED tried
  \/ \E u \in Users, pi \in ParamIds : Quiet /\ retrieve(u, pi)
       /\ UNCHANGED tried

Spec == Init /\ [][Next]_vars

\* SpecIngest: indexContent calls in flight together, interleaved at their
\* awaits. The calls are made with the two versions of note n1 and with a
\* resource.
RaceDocs == {d \in DocIds : Docs[d].metadata.resourceId # "r2"}

NextIngest ==
  \/ \E c \in Calls, u \in Users, d \in RaceDocs : IndexContentStart(c, u, d)
       /\ UNCHANGED tried
  \/ \E c \in Calls : IndexContentChunk(c) /\ UNCHANGED tried
  \/ \E c \in Calls : IndexContentEmbed(c) /\ UNCHANGED tried
  \/ \E c \in Calls : IndexContentEmbedFail(c) /\ UNCHANGED tried
  \/ \E c \in Calls : IndexContentSave(c) /\ UNCHANGED tried
  \/ \E c \in Calls : IndexContentSaveFail(c) /\ UNCHANGED tried
  \/ \E c \in Calls : IndexContentReturn(c) /\ UNCHANGED tried

SpecIngest == Init /\ [][NextIngest]_vars

\* SpecRetry: ingests one at a time, with the failed upsert and its retry
\* followed: tried is set when a call fails in the store, kept while the
\* next calls are made with the same user and document, and marked done when
\* one of them saves.
SameIngest(u, d) == tried # NoTried /\ tried.user = u /\ tried.doc = d

TriedAfterStart(u, d) ==
  IF SameIngest(u, d) /\ ~tried.done THEN tried ELSE NoTried

TriedAfterFail(c) ==
  IF SameIngest(req[c].user, req[c].doc) /\ ~tried.done THEN tried
  ELSE [user |-> req[c].user, doc |-> req[c].doc, pre |-> store,
        done |-> FALSE]

TriedAfterSave(c) ==
  IF SameIngest(req[c].user, req[c].doc) /\ ~tried.done
  THEN [tried EXCEPT !.done = TRUE] ELSE NoTried

NextRetry ==
  \/ \E c \in SerialCalls, u \in Users, d \in DocIds :
       IndexContentStart(c, u, d) /\ tried' = TriedAfterStart(u, d)
  \/ \E c \in SerialCalls : IndexContentChunk(c) /\ UNCHANGED tried
  \/ \E c \in SerialCalls : IndexContentEmbed(c) /\ UNCHANGED tried
  \/ \E c \in SerialCalls : IndexContentEmbedFail(c) /\ UNCHANGED tried
  \/ \E c \in SerialCalls : IndexContentSave(c) /\ tried' = TriedAfterSave(c)
  \/ \E c \in SerialCalls :
       IndexContentSaveFail(c) /\ tried' = TriedAfterFail(c)
  \/ \E c \in SerialCalls : IndexContentReturn(c) /\ UNCHANGED tried

SpecRetry == Init /\ [][NextRetry]_vars

(***************************************************************************)
(* Claims                                                                  *)
(***************************************************************************)

\* C1: every payload retrieve(user, param) returns has tenantId equal to
\* user.uid, whatever the caller's filter and the documents' metadata, and
\* none of the returned points was written by another user's ingest.
C1_TenantIsolation ==
  ret.op = "retrieve" =>
    \A p \in ret.out : p.payload.tenantId = ret.user /\ p.by = ret.user

\* u2 retrieves with no filter while u1's points are stored: u2 gets its own
\* points only
C1_Witness ==
  /\ ret.op = "retrieve" /\ ret.searched /\ ret.user = "u2"
  /\ Params[ret.param].filter = None
  /\ ret.out # {}
  /\ \E p \in store : p.by = "u1"

\* C2: when embedDocuments fails, the indexContent call fails and the store
\* is as it was; and the store only ever changes in the save step of a call
\* whose embedding succeeded, so the failed call contributes no upsert.
C2_EmbedFailNoUpsert ==
  [][\A c \in Calls :
       /\ (stage[c] = "Chunked" /\ stage'[c] = "Failed")
            => (err'[c] = "EmbeddingError" /\ store' = store)
       /\ (stage[c] = "Failed" /\ err[c] = "EmbeddingError")
            => stage'[c] \in {"Failed", "Idle"}
       /\ (store' # store)
            => \E d \in Calls : stage[d] = "Embedded" /\ err[d] = "none"]_vars

\* a call failed on its embedding while the store holds other documents and
\* nothing of the failed call's document
C2_Witness ==
  \E c \in Calls :
    /\ stage[c] = "Failed" /\ err[c] = "EmbeddingError"
    /\ store # {}
    /\ \A p \in store :
         DocIdOf(p.payload) # DocIdOf(Docs[req[c].doc].metadata)

PointsFor(st, docId, i) ==
  {p \in st : DocIdOf(p.payload) = docId /\ p.payload.seq = i}

\* C3: the store never holds two points for one (documentId, sequence), and
\* when an ingest saves, each of its (documentId, sequence) pairs has exactly
\* one stored point, carrying that ingest's chunk.
C3_OnePointPerChunk ==
  [][/\ \A p, q \in store' :
          (DocIdOf(p.payload) = DocIdOf(q.payload)
             /\ p.payload.seq = q.payload.seq) => p = q
     /\ \A c \in Calls :
          IndexContentSave(c) =>
            \A k \in 1..Len(CallChunks(c)) :
              \E p \in store' :
                /\ PointsFor(store', DocIdOf(Docs[req[c].doc].metadata),
                             k - 1) = {p}
                /\ p.payload.content = CallChunks(c)[k]]_vars

\* note n1 was ingested as "a#aa" (two chunks) and then again as "b": chunk
\* 0 carries "b"
C3_Witness ==
  \E c \in Calls :
    /\ stage[c] = "Stored" /\ req[c].doc = 2
    /\ \E p \in store : p.id = <<"n1", 1>>
    /\ \E p \in store : p.id = <<"n1", 0>> /\ p.payload.content = <<"b">>

\* C4: a call for a URL that has an entry in the cache completes at once
\* with the value stored under the URL and sends no request, and the entry
\* stays; the value stored under a URL is the result of the successful fetch
\* that stored it, and while the entry stays only another successful fetch
\* of that URL changes it.
C4_CacheHit ==
  [][/\ \A f \in FCalls, url \in Urls :
          (/\ fstage[f] = "Idle" /\ fstage'[f] # "Idle"
           /\ furl'[f] = url /\ url \in CacheKeys(cache))
          => /\ fstage'[f] = "Done"
             /\ ~fnet'[f]
             /\ fres'[f] = LRUGet(cache, url)
             /\ LRUGet(cache', url) = LRUGet(cache, url)
     /\ \A f \in FCalls, r \in Responses :
          (crawlRespond(f, r) /\ fstage'[f] = "Done")
          => (LRUGet(cache', furl[f]) = r.body /\ fres'[f] = r.body)
     /\ \A url \in CacheKeys(cache) \cap CacheKeys(cache') :
          LRUGet(cache', url) # LRUGet(cache, url)
          => \E f \in FCalls, r \in Responses :
               crawlRespond(f, r) /\ furl[f] = url]_vars

\* a call was answered from a full cache without a request, and the value
\* it returned is the one stored under its URL
C4_Witness ==
  \E f \in FCalls :
    /\ fstage[f] = "Done" /\ ~fnet[f]
    /\ Len(cache) = CacheMax
    /\ fres[f] = LRUGet(cache, furl[f])
    /\ fres[f] = "d1"

FacetOfKey(key) == IF key = "noteId" THEN "noteIds" ELSE "resourceIds"

\* C5: a retrieve by the user of a completed delete, filtered to the deleted
\* owner id alone, with no save of that owner id by that user in between,
\* returns nothing.
C5_DeletedNotRetrieved ==
  (/\ ret.op = "retrieve" /\ ret.searched
   /\ gone # NoGone
   /\ gone.user = ret.user
   /\ Facet(Params[ret.param], FacetOfKey(gone.key)) = Some(<<gone.id>>))
  => ret.out = {}

\* u1 deleted resource r1, which removed points, then retrieved with
\* resourceIds [r1] and got nothing, while u1's points of r2 are still stored
C5_Witness ==
  /\ ret.op = "retrieve" /\ ret.searched /\ ret.user = "u1"
  /\ gone # NoGone /\ gone.user = "u1" /\ gone.id = "r1" /\ gone.hit
  /\ Facet(Params[ret.param], "resourceIds") = Some(<<"r1">>)
  /\ ret.out = {}
  /\ \E p \in store : p.by = "u1" /\ p.payload.resourceId = "r2"

\* C6: a delete by owner by user u for owner id x removes nothing but points
\* whose tenantId is u and whose owner-id field is x; every other point is
\* still in the store, unchanged.
C6_DeleteFrame ==
  [][/\ \A u \in Users, x \in ResourceIds :
          deleteResourceNodes(u, x) =>
            /\ store' \subseteq store
            /\ \A p \in store :
                 (p.payload.tenantId # u \/ p.payload.resourceId # x)
                   => p \in store'
     /\ \A u \in Users, x \in NoteIds :
          deleteNoteNodes(u, x) =>
            /\ store' \subseteq store
            /\ \A p \in store :
                 (p.payload.tenantId # u \/ p.payload.noteId # x)
                   => p \in store']_vars

\* u1 deleted note n1 and points went; u2's point of note n1 and u1's points
\* of a resource are still there
C6_Witness ==
  /\ gone # NoGone /\ gone.key = "noteId" /\ gone.user = "u1" /\ gone.hit
  /\ \E p \in store : p.by = "u2" /\ p.payload.noteId = "n1"
  /\ \E p \in store : p.by = "u1" /\ p.payload.nodeType = "resource"
  /\ \A p \in store : ~(p.by = "u1" /\ p.payload.noteId = "n1")

FacetKeys ==
  <<[facet |-> "nodeTypes", key |-> "nodeType"],
    [facet |-> "urls", key |-> "url"],
    [facet |-> "noteIds", key |-> "noteId"],
    [facet |-> "resourceIds", key |-> "resourceId"],
    [facet |-> "collectionIds", key |-> "collectionId"]>>

Populated(param, facet) ==
  /\ param.filter # None
  /\ param.filter[1][facet] # None
  /\ param.filter[1][facet][1] # <<>>

\* C7: the filter retrieve sends is the tenant equality followed by one
\* any-of condition per populated facet, in facet order, and nothing for an
\* absent or empty facet; every returned payload matches some value of every
\* populated facet.
C7_FilterShape ==
  (ret.op = "retrieve" /\ ret.searched) =>
    LET param == Params[ret.param]
        pop == SelectSeq(FacetKeys, LAMBDA fk : Populated(param, fk.facet))
    IN  /\ Len(ret.must) = 1 + Len(pop)
        /\ ret.must[1] = [key |-> "tenantId", kind |-> "value",
                          match |-> ret.user]
        /\ \A j \in 1..Len(pop) :
             ret.must[j + 1] = [key |-> pop[j].key, kind |-> "any",
                                match |-> param.filter[1][pop[j].facet][1]]
        /\ \A p \in ret.out : \A j \in 1..Len(pop) :
             \E v \in 1..Len(param.filter[1][pop[j].facet][1]) :
               p.payload[pop[j].key] = param.filter[1][pop[j].facet][1][v]

\* a retrieve with an empty and an absent facet beside a populated one
\* returned a point
C7_Witness ==
  /\ ret.op = "retrieve" /\ ret.searched
  /\ Facet(Params[ret.param], "nodeTypes") = Some(<<>>)
  /\ Facet(Params[ret.param], "urls") = None
  /\ Len(ret.must) = 2
  /\ ret.out # {}

\* the answers the fetch must refuse: a status other than 200, a body that
\* is not JSON (empty or malformed), a body that parses to null
BadResponse(r) == r.status # 200 \/ r.body \in {"", "<html>", "null"}

C9_RoundTripExact ==
  (loaded.op = "load" /\ saved[loaded.key] # 0)
    => (loaded.ok /\ loaded.data = Contents[saved[loaded.key]])

\* v is the value of some float: at most 24 significant bits
IsFloat32(v) ==
  \E k \in 0..6 : Abs(v) % (2^k) = 0 /\ Abs(v) \div (2^k) < F32Limit

\* the distance between neighbouring floats at v's magnitude
Ulp(v) ==
  2^(CHOOSE k \in 0..6 :
       /\ Abs(v) \div (2^k) < F32Limit
       /\ k > 0 => Abs(v) \div (2^(k - 1)) >= F32Limit)

\* y is a float nearest to x, and x itself when x is a float's value
F32Near(x, y) ==
  /\ IsFloat32(y)
  /\ 2 * Abs(y - x) <= Ulp(x)
  /\ IsFloat32(x) => y = x

SameUpToFloat32(x, y) ==
  /\ Len(y.chunks) = Len(x.chunks)
  /\ \A i \in 1..Len(x.chunks) :
       /\ y.chunks[i].id = x.chunks[i].id
       /\ y.chunks[i].url = x.chunks[i].url
       /\ y.chunks[i].type = x.chunks[i].type
       /\ y.chunks[i].title = x.chunks[i].title
       /\ y.chunks[i].content = x.chunks[i].content
       /\ Len(y.chunks[i].vector) = Len(x.chunks[i].vector)
       /\ \A j \in 1..Len(x.chunks[i].vector) :
            F32Near(x.chunks[i].vector[j], y.chunks[i].vector[j])

\* C9: what loadContentChunks(s) returns after saveContentChunks(s, x) has
\* x's chunks in x's order, each with x's id, url, type, title and content,
\* and a vector whose components are x's rounded to the nearest float: equal
\* to x's wherever x's component is the value of a float.
C9_RoundTripFloat32 ==
  (loaded.op = "load" /\ saved[loaded.key] # 0)
    => (loaded.ok
        /\ SameUpToFloat32(Contents[saved[loaded.key]], loaded.data))

\* a record of two chunks, one with a 64-byte content and a vector of three
\* components, came back equal, while the other key holds another record
C9_Witness ==
  /\ loaded.op = "load" /\ loaded.ok
  /\ Len(loaded.data.chunks) = 2
  /\ loaded.data = Contents[saved[loaded.key]]
  /\ \E k \in StorageKeys :
       k # loaded.key /\ saved[k] \notin {0, saved[loaded.key]}

NoQuery(param) ==
  param.vector = None /\ (param.query = None \/ param.query = Some(<<>>))

\* C10: a retrieve whose param has neither a vector nor query text fails
\* with a validation error and runs no search on the store.
C10_ValidationError ==
  (ret.op = "retrieve" /\ NoQuery(Params[ret.param]))
    => (ret.err = "ValidationError" /\ ~ret.searched)

\* the steps of a call: forward one stage at a time, to Failed from a stage
\* before Stored, and out of Stored or Failed only by returning
StageSteps ==
  {<<"Idle", "Received">>, <<"Received", "Chunked">>,
   <<"Chunked", "Embedded">>, <<"Embedded", "Stored">>,
   <<"Received", "Failed">>, <<"Chunked", "Failed">>,
   <<"Embedded", "Failed">>, <<"Stored", "Idle">>, <<"Failed", "Idle">>}

StagesInOrder ==
  \A c \in Calls :
    /\ stage'[c] # stage[c] => <<stage[c], stage'[c]>> \in StageSteps
    /\ (stage[c] # "Idle" /\ stage'[c] # "Idle") => req'[c] = req[c]

\* C11 as stated: the stages are passed in order, a failed call stays failed
\* until it returns, and the store changes only in a step from Embedded to
\* Stored.
C11_StoreOnlyOnStored ==
  [][/\ StagesInOrder
     /\ store' # store
          => \E c \in Calls : stage[c] = "Embedded" /\ stage'[c] = "Stored"
    ]_vars

\* C11: the stages are passed in order, a failed call stays failed until it
\* returns, and the store changes only in a step of a call out of Embedded:
\* to Stored with the call's whole batch upserted, or to Failed on a store
\* error with a leading part of the batch upserted.
C11_StageMachine ==
  [][/\ StagesInOrder
     /\ store' # store
          => \E c \in Calls :
               /\ stage[c] = "Embedded"
               /\ \/ /\ stage'[c] = "Stored"
                     /\ store' = batchSaveData(store, CallPoints(c))
                  \/ /\ stage'[c] = "Failed" /\ err'[c] = "StoreError"
                     /\ \E n \in 1..Len(CallPoints(c)) :
                          store' = batchSaveData(store,
                                     SubSeq(CallPoints(c), 1, n))
    ]_vars

\* a call failed on the store's error with the first point of its batch in
\* the store and the last one not
C11_Witness ==
  \E c \in Calls :
    /\ stage[c] = "Failed" /\ err[c] = "StoreError"
    /\ Len(CallPoints(c)) > 1
    /\ CallPoints(c)[1] \in store
    /\ \A p \in store : p.id # CallPoints(c)[Len(CallPoints(c))].id

\* C12: when a call that produced n chunks saves, the points the store
\* gains or replaces are n points, one per i in 0..n-1, the one with seq i
\* carrying the i-th chunk as content, the embedding of the i-th chunk as
\* vector and the caller as tenant; no other point enters the store.
C12_BatchInChunkOrder ==
  [][\A c \in Calls :
       IndexContentSave(c) =>
         LET chunks == CallChunks(c)
             docId == DocIdOf(Docs[req[c].doc].metadata)
         IN  /\ \A k \in 1..Len(chunks) :
                  \E p \in store' :
                    /\ PointsFor(store', docId, k - 1) = {p}
                    /\ p.payload.content = chunks[k]
                    /\ p.vector = embedText(chunks[k])
                    /\ p.payload.tenantId = req[c].user
             /\ \A p \in store' \ store :
                  /\ DocIdOf(p.payload) = docId
                  /\ p.payload.seq \in 0..(Len(chunks) - 1)
             /\ Cardinality(store' \ store) <= Len(chunks)]_vars

\* the first version of note n1 is stored as two points: seq 0 with the
\* chunk "aa" and its vector, seq 1 with the chunk "a" and its vector
C12_Witness ==
  \E c \in Calls :
    /\ stage[c] = "Stored" /\ req[c].doc = 1
    /\ \E p, q \in store :
         /\ p.payload.seq = 0 /\ p.payload.content = <<"a", "a">>
         /\ p.vector = <<2, 2>>
         /\ q.payload.seq = 1 /\ q.payload.content = <<"a">>
         /\ q.vector = <<1, 1>>

\* the document id a call ingests
CallDocId(c) == DocIdOf(Docs[req[c].doc].metadata)

\* call c writes points of p's chunk id in this step
Upserts(c, p) ==
  /\ stage[c] = "Embedded" /\ stage'[c] \in {"Stored", "Failed"}
  /\ CallDocId(c) = DocIdOf(p.payload)
  /\ p.payload.seq < Len(CallChunks(c))

\* C13: with ingests interleaved in any way, a call that saves leaves
\* exactly one point per chunk id of its batch, its own; a stored point stays
\* as it is until a call upserts its chunk id; and no chunk id ever has two
\* points. So when two calls for one document id have both completed, every
\* chunk id either wrote has one point, that of the call that upserted it
\* last.
C13_LastUpsertWins ==
  [][/\ \A c \in Calls :
          (stage[c] = "Embedded" /\ stage'[c] = "Stored") =>
            \A k \in 1..Len(CallChunks(c)) :
              \E p \in store' :
                /\ PointsFor(store', CallDocId(c), k - 1) = {p}
                /\ p.payload.content = CallChunks(c)[k]
                /\ p.vector = embedText(CallChunks(c)[k])
                /\ p.by = req[c].user
     /\ \A p \in store :
          (\A c \in Calls : ~Upserts(c, p)) => p \in store'
     /\ \A p, q \in store' :
          (DocIdOf(p.payload) = DocIdOf(q.payload)
             /\ p.payload.seq = q.payload.seq) => p = q
    ]_vars

\* two calls of u1 for note n1, one with each version, have both completed;
\* the one with "b" upserted chunk 0 last, chunk 1 is the other call's
C13_Witness ==
  \E c, d \in Calls :
    /\ stage[c] = "Stored" /\ stage[d] = "Stored"
    /\ req[c] = [user |-> "u1", doc |-> 1]
    /\ req[d] = [user |-> "u1", doc |-> 2]
    /\ \E p \in store : p.id = <<"n1", 0>> /\ p.payload.content = <<"b">>
    /\ \E p \in store : p.id = <<"n1", 1>> /\ p.payload.content = <<"a">>

\* the entries of c other than those under the given URLs, in c's order
Without(c, urls) == SelectSeq(c, LAMBDA e : e.url \notin urls)

\* C14: the cache never holds more than its capacity, nor two entries for a
\* URL; a hit makes the entry the most recently used and changes nothing
\* else; a stored result becomes the most recently used entry, and when it
\* is stored under a new URL into a full cache exactly the least recently
\* used entry goes, the others keeping their order of use.
C14_LRUCapacity ==
  [][/\ Len(cache') <= CacheMax
     /\ Cardinality(CacheKeys(cache')) = Len(cache')
     /\ \A f \in FCalls, url \in Urls :
          crawlHit(f, url) =>
            /\ cache'[Len(cache')] = [url |-> url, data |-> LRUGet(cache, url)]
            /\ Without(cache', {url}) = Without(cache, {url})
     /\ \A f \in FCalls, r \in Responses :
          (crawlRespond(f, r) /\ fstage'[f] = "Done") =>
            /\ cache'[Len(cache')] = [url |-> furl[f], data |-> r.body]
            /\ IF furl[f] \notin CacheKeys(cache) /\ Len(cache) = CacheMax
               THEN Without(cache', {furl[f]}) = Tail(cache)
               ELSE Without(cache', {furl[f]}) = Without(cache, {furl[f]})
    ]_vars

\* the cache is full and a call that was answered from the cache still holds
\* its result while its URL has since been evicted
C14_Witness ==
  /\ Len(cache) = CacheMax
  /\ \E g \in FCalls :
       /\ fstage[g] = "Done" /\ ~fnet[g]
       /\ furl[g] \notin CacheKeys(cache)

\* C15: with fetch calls interleaved in any way, the cache has at most one
\* entry per URL; an entry appears or changes its value only when a call that
\* requested that URL receives a 200 answer with a usable body, and then
\* holds that body; and a step in which a call fails leaves the cache as it
\* was.
C15_ConcurrentFetch ==
  [][/\ \A i, j \in 1..Len(cache') :
          cache'[i].url = cache'[j].url => i = j
     /\ \A url \in CacheKeys(cache') :
          (url \notin CacheKeys(cache)
             \/ LRUGet(cache', url) # LRUGet(cache, url))
          => \E f \in FCalls, r \in Responses :
               /\ fstage[f] = "Fetching" /\ fnet[f] /\ furl[f] = url
               /\ crawlRespond(f, r)
               /\ r.status = 200 /\ ~BadResponse(r)
               /\ LRUGet(cache', url) = r.body
     /\ \A f \in FCalls :
          (fstage[f] # "Failed" /\ fstage'[f] = "Failed") => cache' = cache
    ]_vars

\* two calls missed on one URL, each sent its own request and got its own
\* answer; the cache has the one entry, with the answer that came last
C15_Witness ==
  \E f, g \in FCalls :
    /\ f # g /\ fstage[f] = "Done" /\ fstage[g] = "Done"
    /\ fnet[f] /\ fnet[g] /\ furl[f] = furl[g]
    /\ fres[f] # fres[g]
    /\ LRUGet(cache, furl[f]) = fres[g]
    /\ Cardinality({i \in 1..Len(cache) : cache[i].url = furl[f]}) = 1

\* the batch of an ingest of document d by user u
BatchOf(u, d) ==
  IndexPoints(u, Docs[d], chunkText(Docs[d].pageContent),
              embedDocuments(chunkText(Docs[d].pageContent)))

\* C16: when an ingest failed in the store and the same ingest, made again,
\* has saved, the store is what one successful ingest would have made of the
\* store as it was before the failure: each chunk id of the document has
\* exactly one point, with the document's chunk as content.
C16_RetryIdempotent ==
  (tried # NoTried /\ tried.done) =>
    LET chunks == chunkText(Docs[tried.doc].pageContent)
        docId == DocIdOf(Docs[tried.doc].metadata)
    IN  /\ store = batchSaveData(tried.pre, BatchOf(tried.user, tried.doc))
        /\ \A k \in 1..Len(chunks) :
             \E p \in store :
               /\ PointsFor(store, docId, k - 1) = {p}
               /\ p.payload.content = chunks[k]
               /\ p.by = tried.user

\* the retry of an ingest of the first version of note n1 has saved, after
\* the failed attempt had written something while another user's points of
\* the note were stored
C16_Witness ==
  /\ tried # NoTried /\ tried.done /\ tried.doc = 1
  /\ tried.pre # {}
  /\ \E c \in Calls : stage[c] = "Stored" /\ req[c].doc = 1
  /\ \A p \in tried.pre : p.by # tried.user

\* C17: for every document inMemoryIndexContent added, end - start is the
\* length of its trimmed content, the original content from start to end is
\* that trimmed content, and the ranges of one call's chunks follow one
\* another without overlap.
C17_OffsetsIntoOriginal ==
  \A i \in 1..Len(mem) :
    mem[i].metadata.start # NoOffset =>
      /\ mem[i].metadata.end - mem[i].metadata.start = Len(mem[i].pageContent)
      /\ mem[i].metadata.end <= Len(MemDocs[mem[i].src].pageContent)
      /\ SubSeq(MemDocs[mem[i].src].pageContent,
                mem[i].metadata.start + 1, mem[i].metadata.end)
           = mem[i].pageContent
      /\ (/\ i < Len(mem) /\ mem[i + 1].src = mem[i].src
          /\ mem[i + 1].metadata.start > 0)
           => mem[i + 1].metadata.start >= mem[i].metadata.end

\* C18: a step in which an ingest call writes the store leaves every point
\* whose tenantId is not the caller's in the store, unchanged.
C18_NoCrossTenantOverwrite ==
  [][\A c \in Calls :
       (stage[c] = "Embedded" /\ stage'[c] \in {"Stored", "Failed"}) =>
         \A p \in store :
           p.payload.tenantId # req[c].user => p \in store']_vars

\* C19: when an ingest has saved, the store holds no point of the caller
\* for the ingested document with a sequence number at or beyond the number
\* of chunks of the content just ingested (so a retrieve for the document
\* cannot return a chunk of earlier content).
C19_NoStaleChunks ==
  \A c \in Calls :
    stage[c] = "Stored" =>
      \A p \in store :
        (DocIdOf(p.payload) = CallDocId(c)
           /\ p.payload.tenantId = req[c].user)
        => p.payload.seq < Len(CallChunks(c))


\* C20: the documents a search returns were all indexed by the searching
\* user, carry that user's uid as tenantId and satisfy the caller's filter,
\* whatever the filter and whatever tenantId the indexed metadata carried.
C20_SearchOwnTenantOnly ==
  mret.op = "search" =>
    \A i \in mret.out :
      /\ i \in 1..Len(mem)
      /\ mem[i].metadata.tenantId = mret.user
      /\ mem[i].by = mret.user
      /\ CallerFilter(mret.filter, mem[i])

\* a search returned a document whose metadata named another tenant when it
\* was indexed, and left out a document of another user that the caller's
\* filter accepts
C20_Witness ==
  /\ mret.op = "search"
  /\ \E i \in mret.out :
       /\ MemDocs[mem[i].src].metadata.tenantId # Undef
       /\ MemDocs[mem[i].src].metadata.tenantId # mret.user
  /\ \E j \in 1..Len(mem) :
       /\ j \notin mret.out
       /\ mem[j].by # mret.user
       /\ CallerFilter(mret.filter, mem[j])

====
